---- MODULE Spec2Model ----
(***************************************************************************)
(* State-machine model of src/pages/Article/List/index.tsx (ArticleList): *)
(* filter / keyword state, list fetching through getArticles, the         *)
(* confirmation dialog in front of patchArticlesState, and the loading    *)
(* flags.  JavaScript objects are functions from the keys that are        *)
(* present to their values; every value is a string so that objects can   *)
(* be compared.                                                           *)
(***************************************************************************)
EXTENDS Naturals, Sequences, FiniteSets, TLC

VARIABLES
    mounted,          \* onMounted has run
    filterParams,     \* useReactive({...DEFAULT_FILTER_PARAMS})
    serarchKeyword,   \* useRef('')
    selectedIds,      \* useRef([])
    article,          \* useShallowReactive({ data, pagination })
    loading,          \* useLoading() of the list
    loadingCategory,  \* useLoading() of the categories
    loadingTag,       \* useLoading() of the tags
    categoriesTree,   \* useRef([])  (the slugs of the loaded categories)
    tags,             \* useRef([])  (the slugs of the loaded tags)
    catPending,       \* getCategories calls in flight
    tagPending,       \* getTags calls in flight
    pending,          \* ids of the getArticles calls in flight
    fetchSeq,         \* number of getArticles calls issued so far
    issued,           \* arguments of the getArticles calls made by the last step
    failed,           \* some getArticles call has rejected
    dialog,           \* the Modal.confirm dialog
    patches,          \* patchArticlesState calls in flight
    patchSeq,         \* number of patchArticlesState calls issued so far
    events            \* number of user inputs and rejected calls so far

vars == <<mounted, filterParams, serarchKeyword, selectedIds, article, loading,
          loadingCategory, loadingTag, categoriesTree, tags, catPending,
          tagPending, pending, fetchSeq, issued, failed, dialog, patches,
          patchSeq, events>>

----------------------------------------------------------------------------
(* Bounds *)

\* user inputs (clicks, selections, key strokes) and rejected calls in one run
MaxEvents == 3

----------------------------------------------------------------------------
(* Values *)

SELECT_ALL_VALUE == "ALL"
Undefined == "undefined"

SortValues == {"Desc", "Asc"}
PublishStates == {"Draft", "Published", "Recycle"}
ArticlePublics == {"Public"}
ArticleOrigins == {"Original"}
ArticleLanguages == {"en"}
TagSlugs == {"t1"}
CategorySlugs == {"c1"}
Keywords == {"", "vue", "ALL"}
ArticleIds == {"a1", "a2"}
Pages == {"1", "2"}
PageSizes == {"16"}

FilterKeys == <<"sort", "tag_slug", "category_slug", "lang", "public", "origin", "state">>

DEFAULT_FILTER_PARAMS ==
    [sort |-> "Desc", tag_slug |-> SELECT_ALL_VALUE, category_slug |-> SELECT_ALL_VALUE,
     lang |-> SELECT_ALL_VALUE, public |-> SELECT_ALL_VALUE,
     origin |-> SELECT_ALL_VALUE, state |-> SELECT_ALL_VALUE]

NoParams == <<>>

NoPagination == [rid |-> 0, current_page |-> Undefined, per_page |-> Undefined]
NoData == [rid |-> 0, rows |-> {}]
NoDialog == [status |-> "closed", ids |-> {}, state |-> Undefined]

RowSets == {ArticleIds}

\* the options each select offers (lines 172-296)
Options(key) ==
    CASE key = "sort" -> SortValues
      [] key = "tag_slug" -> {SELECT_ALL_VALUE} \cup tags
      [] key = "category_slug" -> {SELECT_ALL_VALUE} \cup categoriesTree
      [] key = "lang" -> {SELECT_ALL_VALUE} \cup ArticleLanguages
      [] key = "public" -> {SELECT_ALL_VALUE} \cup ArticlePublics
      [] key = "origin" -> {SELECT_ALL_VALUE} \cup ArticleOrigins
      [] OTHER -> {SELECT_ALL_VALUE} \cup PublishStates

----------------------------------------------------------------------------
(* fetchData: the argument of getArticles *)

\* { ...a, ...b }
Spread(a, b) ==
    [k \in DOMAIN a \cup DOMAIN b |-> IF k \in DOMAIN b THEN b[k] ELSE a[k]]

\* Boolean(serarchKeyword.value) ? serarchKeyword.value : undefined
KeywordParam(kw) == IF kw # "" THEN kw ELSE Undefined

\* variant: the loop deletes nothing
DeleteAll_KeepsAll(obj) == obj

\* the Object.keys(getParams).forEach(...) loop that deletes the 'ALL' keys
DeleteAll(obj) ==
    [k \in {x \in DOMAIN obj : obj[x] # SELECT_ALL_VALUE} |-> obj[k]]

GetParams(params, fp, kw) ==
    DeleteAll(Spread(Spread(params, fp), [keyword |-> KeywordParam(kw)]))

\* useLoading: a boolean flag that promise() sets when it is handed a call and
\* clears when that call settles
LoadingStart(flag) == TRUE
LoadingStop(flag) == FALSE

\* loading.promise(getArticles(...)) for each request of reqs, in order
Issue(reqs) ==
    /\ fetchSeq' = fetchSeq + Len(reqs)
    /\ pending' = pending \cup ((fetchSeq + 1) .. (fetchSeq + Len(reqs)))
    /\ loading' = IF Len(reqs) > 0 THEN LoadingStart(loading) ELSE loading
    /\ issued' = reqs

fetchData(params) == Issue(<<GetParams(params, filterParams, serarchKeyword)>>)

----------------------------------------------------------------------------
(* Initial state: the component as constructed, before onMounted *)

Init ==
    /\ mounted = FALSE
    /\ filterParams = DEFAULT_FILTER_PARAMS
    /\ serarchKeyword = ""
    /\ selectedIds = {}
    /\ article = [data |-> NoData, pagination |-> NoPagination]
    /\ loading = FALSE
    /\ loadingCategory = FALSE
    /\ loadingTag = FALSE
    /\ categoriesTree = {}
    /\ tags = {}
    /\ catPending = 0
    /\ tagPending = 0
    /\ pending = {}
    /\ fetchSeq = 0
    /\ issued = <<>>
    /\ failed = FALSE
    /\ dialog = NoDialog
    /\ patches = {}
    /\ patchSeq = 0
    /\ events = 0

\* the page behind the confirmation dialog takes no input while it is shown
PageActive == mounted /\ dialog.status = "closed"

\* a step that counts against MaxEvents: a user input or a rejected call
Event == events < MaxEvents /\ events' = events + 1

----------------------------------------------------------------------------
(* Mount and the auxiliary lists.  A getCategories or getTags call that      *)
(* rejects leaves its list empty, as one that has not settled does.         *)

onMounted ==
    /\ UNCHANGED events
    /\ ~mounted
    /\ mounted' = TRUE
    /\ fetchData(NoParams)
    /\ loadingCategory' = LoadingStart(loadingCategory)
    /\ catPending' = catPending + 1
    /\ loadingTag' = LoadingStart(loadingTag)
    /\ tagPending' = tagPending + 1
    /\ UNCHANGED <<filterParams, serarchKeyword, selectedIds, article,
                   categoriesTree, tags, failed, dialog, patches, patchSeq>>

CategoriesResolve ==
    /\ UNCHANGED events
    /\ catPending > 0
    /\ catPending' = catPending - 1
    /\ loadingCategory' = LoadingStop(loadingCategory)
    /\ categoriesTree' = CategorySlugs
    /\ issued' = <<>>
    /\ UNCHANGED <<mounted, filterParams, serarchKeyword, selectedIds, article,
                   loading, loadingTag, tags, tagPending, pending, fetchSeq,
                   failed, dialog, patches, patchSeq>>


TagsResolve ==
    /\ UNCHANGED events
    /\ tagPending > 0
    /\ tagPending' = tagPending - 1
    /\ loadingTag' = LoadingStop(loadingTag)
    /\ tags' = TagSlugs
    /\ issued' = <<>>
    /\ UNCHANGED <<mounted, filterParams, serarchKeyword, selectedIds, article,
                   loading, loadingCategory, categoriesTree, catPending, pending,
                   fetchSeq, failed, dialog, patches, patchSeq>>


----------------------------------------------------------------------------
(* Filters, keyword, pagination *)

\* onChange of a select, called with an option other than the current one:
\* filterParams[key] = v, and the change runs useWatch(filterParams, () => fetchData())
onChange(key, v) ==
    /\ Event
    /\ PageActive
    /\ v \in Options(key) \ {filterParams[key]}
    /\ filterParams' = [filterParams EXCEPT ![key] = v]
    /\ Issue(<<GetParams(NoParams, [filterParams EXCEPT ![key] = v], serarchKeyword)>>)
    /\ UNCHANGED <<mounted, serarchKeyword, selectedIds, article, loadingCategory,
                   loadingTag, categoriesTree, tags, catPending, tagPending,
                   failed, dialog, patches, patchSeq>>

\* onChange of Input.Search
onKeywordChange(text) ==
    /\ Event
    /\ PageActive
    /\ text # serarchKeyword
    /\ serarchKeyword' = text
    /\ issued' = <<>>
    /\ UNCHANGED <<mounted, filterParams, selectedIds, article, loading,
                   loadingCategory, loadingTag, categoriesTree, tags, catPending,
                   tagPending, pending, fetchSeq, failed, dialog, patches, patchSeq>>

\* onSearch of Input.Search
onSearch ==
    /\ Event
    /\ PageActive
    /\ fetchData(NoParams)
    /\ UNCHANGED <<mounted, filterParams, serarchKeyword, selectedIds, article,
                   loadingCategory, loadingTag, categoriesTree, tags, catPending,
                   tagPending, failed, dialog, patches, patchSeq>>

onPagination(page, pageSize) ==
    /\ Event
    /\ PageActive
    /\ fetchData([page |-> page, per_page |-> pageSize])
    /\ UNCHANGED <<mounted, filterParams, serarchKeyword, selectedIds, article,
                   loadingCategory, loadingTag, categoriesTree, tags, catPending,
                   tagPending, failed, dialog, patches, patchSeq>>

\* variant: the watcher reads the filters as they were before the assignment
RECURSIVE ResetFetches_Stale(_, _, _)
ResetFetches_Stale(i, fp, kw) ==
    IF i > Len(FilterKeys) THEN <<>>
    ELSE LET key == FilterKeys[i]
             next == [fp EXCEPT ![key] = DEFAULT_FILTER_PARAMS[key]]
         IN  IF next # fp
               THEN <<GetParams(NoParams, fp, kw)>> \o ResetFetches_Stale(i + 1, next, kw)
               ELSE ResetFetches_Stale(i + 1, next, kw)

\* the forEach of resetParamsAndRefresh from key number i on: every assignment
\* that changes a value runs the watcher, which fetches with the filters as
\* they are at that moment
RECURSIVE ResetFetches(_, _, _)
ResetFetches(i, fp, kw) ==
    IF i > Len(FilterKeys) THEN <<>>
    ELSE LET key == FilterKeys[i]
             next == [fp EXCEPT ![key] = DEFAULT_FILTER_PARAMS[key]]
         IN  IF next # fp
               THEN <<GetParams(NoParams, next, kw)>> \o ResetFetches(i + 1, next, kw)
               ELSE ResetFetches(i + 1, next, kw)

resetParamsAndRefresh ==
    /\ Event
    /\ PageActive
    /\ serarchKeyword' = ""
    /\ IF filterParams = DEFAULT_FILTER_PARAMS
         THEN /\ Issue(<<GetParams(NoParams, filterParams, "")>>)
              /\ UNCHANGED filterParams
         ELSE /\ filterParams' = DEFAULT_FILTER_PARAMS
              /\ Issue(ResetFetches(1, filterParams, ""))
    /\ UNCHANGED <<mounted, selectedIds, article, loadingCategory, loadingTag,
                   categoriesTree, tags, catPending, tagPending, failed, dialog,
                   patches, patchSeq>>

----------------------------------------------------------------------------
(* Responses of getArticles *)

\* variant: only article.data is assigned
GetArticlesResolve_DataOnly(id, rows, page, pageSize) ==
    /\ UNCHANGED events
    /\ id \in pending
    /\ pending' = pending \ {id}
    /\ loading' = LoadingStop(loading)
    /\ article' = [article EXCEPT !.data = [rid |-> id, rows |-> rows]]
    /\ issued' = <<>>
    /\ UNCHANGED <<mounted, filterParams, serarchKeyword, selectedIds,
                   loadingCategory, loadingTag, categoriesTree, tags, catPending,
                   tagPending, fetchSeq, failed, dialog, patches, patchSeq>>

\* .then of fetchData: both fields are assigned in one batchedUpdates;
\* loading.promise stops the flag when the call settles
GetArticlesResolve(id, rows, page, pageSize) ==
    /\ UNCHANGED events
    /\ id \in pending
    /\ pending' = pending \ {id}
    /\ loading' = LoadingStop(loading)
    /\ article' = [data |-> [rid |-> id, rows |-> rows],
                   pagination |-> [rid |-> id, current_page |-> page, per_page |-> pageSize]]
    /\ issued' = <<>>
    /\ UNCHANGED <<mounted, filterParams, serarchKeyword, selectedIds,
                   loadingCategory, loadingTag, categoriesTree, tags, catPending,
                   tagPending, fetchSeq, failed, dialog, patches, patchSeq>>

GetArticlesReject(id) ==
    /\ Event
    /\ id \in pending
    /\ pending' = pending \ {id}
    /\ loading' = LoadingStop(loading)
    /\ failed' = TRUE
    /\ issued' = <<>>
    /\ UNCHANGED <<mounted, filterParams, serarchKeyword, selectedIds, article,
                   loadingCategory, loadingTag, categoriesTree, tags, catPending,
                   tagPending, fetchSeq, dialog, patches, patchSeq>>

----------------------------------------------------------------------------
(* Selection and state changes *)

\* onSelecte of the table, which selects among the rows it shows; the table
\* is not taken to be covered by the dialog's mask
handleSelect(ids) ==
    /\ Event
    /\ mounted
    /\ ids \subseteq article.data.rows
    /\ ids # selectedIds
    /\ selectedIds' = ids
    /\ issued' = <<>>
    /\ UNCHANGED <<mounted, filterParams, serarchKeyword, article, loading,
                   loadingCategory, loadingTag, categoriesTree, tags, catPending,
                   tagPending, pending, fetchSeq, failed, dialog, patches, patchSeq>>

\* variant: patchArticlesState is called without asking
handleStateChange_NoConfirm(articleIds, state) ==
    /\ patchSeq' = patchSeq + 1
    /\ patches' = patches \cup {[pid |-> patchSeq + 1, ids |-> articleIds, state |-> state]}
    /\ issued' = <<>>
    /\ UNCHANGED <<mounted, filterParams, serarchKeyword, selectedIds, article,
                   loading, loadingCategory, loadingTag, categoriesTree, tags,
                   catPending, tagPending, pending, fetchSeq, failed, dialog>>

\* Modal.confirm({...})
handleStateChange(articleIds, state) ==
    /\ dialog' = [status |-> "open", ids |-> articleIds, state |-> state]
    /\ issued' = <<>>
    /\ UNCHANGED <<mounted, filterParams, serarchKeyword, selectedIds, article,
                   loading, loadingCategory, loadingTag, categoriesTree, tags,
                   catPending, tagPending, pending, fetchSeq, failed, patches,
                   patchSeq>>

\* variant: the menu is never disabled
BulkMenuClick_NotDisabled(state) ==
    /\ Event
    /\ PageActive
    /\ handleStateChange(selectedIds, state)

\* an item of the DropdownMenu, which is disabled while nothing is selected
BulkMenuClick(state) ==
    /\ Event
    /\ PageActive
    /\ selectedIds # {}
    /\ handleStateChange(selectedIds, state)

\* onUpdateState of a row of the table
onUpdateState(id, state) ==
    /\ Event
    /\ PageActive
    /\ id \in article.data.rows
    /\ handleStateChange({id}, state)

\* onOk of the dialog: patchArticlesState(articleIds, state)
onOk ==
    /\ Event
    /\ dialog.status = "open"
    /\ patchSeq' = patchSeq + 1
    /\ patches' = patches \cup {[pid |-> patchSeq + 1, ids |-> dialog.ids, state |-> dialog.state]}
    /\ dialog' = [dialog EXCEPT !.status = "busy"]
    /\ issued' = <<>>
    /\ UNCHANGED <<mounted, filterParams, serarchKeyword, selectedIds, article,
                   loading, loadingCategory, loadingTag, categoriesTree, tags,
                   catPending, tagPending, pending, fetchSeq, failed>>

\* the cancel button of the dialog, also while onOk is in progress
onCancel ==
    /\ Event
    /\ dialog.status # "closed"
    /\ dialog' = NoDialog
    /\ issued' = <<>>
    /\ UNCHANGED <<mounted, filterParams, serarchKeyword, selectedIds, article,
                   loading, loadingCategory, loadingTag, categoriesTree, tags,
                   catPending, tagPending, pending, fetchSeq, failed, patches,
                   patchSeq>>

\* fetchData({ page: article.pagination?.current_page, per_page: article.pagination?.per_page })
refreshData ==
    fetchData([page |-> article.pagination.current_page,
               per_page |-> article.pagination.per_page])

\* the dialog that waits for the promise of onOk closes when it settles
CloseBusy == IF dialog.status = "busy" THEN NoDialog ELSE dialog

\* .then of patchArticlesState
PatchResolve(p) ==
    /\ UNCHANGED events
    /\ p \in patches
    /\ patches' = patches \ {p}
    /\ refreshData
    /\ dialog' = CloseBusy
    /\ UNCHANGED <<mounted, filterParams, serarchKeyword, selectedIds, article,
                   loadingCategory, loadingTag, categoriesTree, tags, catPending,
                   tagPending, failed, patchSeq>>

\* patchArticlesState rejects: no handler of this page runs; the dialog either
\* stays for another attempt or closes, depending on the dialog library
PatchReject(p, stay) ==
    /\ Event
    /\ p \in patches
    /\ patches' = patches \ {p}
    /\ dialog' = IF dialog.status = "busy" /\ stay
                   THEN [dialog EXCEPT !.status = "open"]
                   ELSE CloseBusy
    /\ issued' = <<>>
    /\ UNCHANGED <<mounted, filterParams, serarchKeyword, selectedIds, article,
                   loading, loadingCategory, loadingTag, categoriesTree, tags,
                   catPending, tagPending, pending, fetchSeq, failed, patchSeq>>

----------------------------------------------------------------------------

Next ==
    \/ onMounted
    \/ CategoriesResolve
    \/ TagsResolve
    \/ \E i \in DOMAIN FilterKeys : \E v \in Options(FilterKeys[i]) : onChange(FilterKeys[i], v)
    \/ \E text \in Keywords : onKeywordChange(text)
    \/ onSearch
    \/ \E page \in Pages, pageSize \in PageSizes : onPagination(page, pageSize)
    \/ resetParamsAndRefresh
    \/ \E id \in pending, rows \in RowSets, page \in Pages, pageSize \in PageSizes :
          GetArticlesResolve(id, rows, page, pageSize)
    \/ \E id \in pending : GetArticlesReject(id)
    \/ \E ids \in SUBSET ArticleIds : handleSelect(ids)
    \/ \E state \in PublishStates : BulkMenuClick(state)
    \/ \E id \in ArticleIds, state \in PublishStates : onUpdateState(id, state)
    \/ onOk
    \/ onCancel
    \/ \E p \in patches : PatchResolve(p)
    \/ \E p \in patches, stay \in BOOLEAN : PatchReject(p, stay)

Spec == Init /\ [][Next]_vars

----------------------------------------------------------------------------
(* Properties *)

Last(s) == s[Len(s)]

OptionalFilterKeys == {"tag_slug", "category_slug", "lang", "public", "origin", "state"}

\* request r carries the keyword kw: its text when there is one, no value otherwise
CarriesKeyword(r, kw) ==
    IF kw # ""
      THEN "keyword" \in DOMAIN r /\ r.keyword = kw
      ELSE "keyword" \notin DOMAIN r \/ r.keyword = Undefined

\* request r carries the filters fp: sort always, the others unless they are 'ALL'
CarriesFilters(r, fp) ==
    /\ "sort" \in DOMAIN r /\ r.sort = fp.sort
    /\ \A k \in OptionalFilterKeys :
          IF fp[k] # SELECT_ALL_VALUE
            THEN k \in DOMAIN r /\ r[k] = fp[k]
            ELSE k \notin DOMAIN r

\* request r carries exactly the page arguments params
CarriesPage(r, params) ==
    \A k \in {"page", "per_page"} :
        IF k \in DOMAIN params THEN k \in DOMAIN r /\ r[k] = params[k]
        ELSE k \notin DOMAIN r

\* C1: patchArticlesState is called only by the step that confirms an open
\* dialog, with the arguments that dialog was opened with; a step that cancels
\* the dialog calls nothing and leaves the list, the pagination, the filters
\* and the selection as they are.
C1_ConfirmationGated ==
    [][ /\ (patchSeq' # patchSeq \/ ~(patches' \subseteq patches)) =>
              /\ dialog.status = "open"
              /\ dialog.ids # {}
              /\ dialog'.status = "busy"
              /\ patchSeq' = patchSeq + 1
              /\ patches' = patches \cup
                    {[pid |-> patchSeq', ids |-> dialog.ids, state |-> dialog.state]}
        /\ (dialog.status = "open" /\ dialog'.status = "closed") =>
              /\ patchSeq' = patchSeq
              /\ patches' = patches
              /\ UNCHANGED <<article, filterParams, serarchKeyword, selectedIds,
                             pending, fetchSeq>>
      ]_vars

C1_Witness == \E p \in patches : dialog.status = "busy" /\ p.ids = dialog.ids

\* C2: every request handed to getArticles has the sort key and no key whose
\* value is 'ALL', and the request of the last call carries each optional
\* filter exactly when its selection is not 'ALL', with the selected value.
C2_ParamsFromFilters ==
    /\ \A i \in DOMAIN issued :
          /\ "sort" \in DOMAIN issued[i] /\ issued[i].sort \in SortValues
          /\ \A k \in DOMAIN issued[i] : issued[i][k] # SELECT_ALL_VALUE
    /\ issued # <<>> => CarriesFilters(Last(issued), filterParams)

C2_Witness ==
    /\ issued # <<>>
    /\ filterParams.state # SELECT_ALL_VALUE
    /\ filterParams.lang = SELECT_ALL_VALUE
    /\ "state" \in DOMAIN Last(issued)

\* C3: the request of every fetchData call carries the text of the search box
\* as keyword when the text is not empty, and no keyword value when it is.
C3_KeywordCarried ==
    issued # <<>> => CarriesKeyword(Last(issued), serarchKeyword)

\* C4: every patchArticlesState call, and every dialog asking for one, has at
\* least one article id and a state among Draft, Published and Recycle; a bulk
\* menu item opens the dialog for exactly the current selection, a row action
\* for exactly the id of its row.
C4_PatchArguments ==
    /\ [](/\ \A p \in patches : p.ids # {} /\ p.state \in PublishStates
          /\ dialog.status # "closed" => dialog.ids # {} /\ dialog.state \in PublishStates)
    /\ [][ /\ (\E st \in PublishStates : BulkMenuClick(st)) =>
                 selectedIds # {} /\ dialog'.ids = selectedIds
           /\ \A id \in ArticleIds :
                 (\E st \in PublishStates : onUpdateState(id, st)) => dialog'.ids = {id}
           /\ onOk => \E p \in patches' \ patches :
                         p.ids = dialog.ids /\ p.state = dialog.state
         ]_vars

C4_Witness == \E p \in patches : Cardinality(p.ids) = 2 /\ dialog.status = "busy"

\* C5: a re-fetch follows the state change only when patchArticlesState has
\* resolved, and it asks for the page and page size displayed, with the
\* current filters and keyword; a rejected patchArticlesState issues no fetch
\* and leaves data and pagination alone.
C5_RefreshAfterPatch ==
    [][ /\ (\E p \in patches : PatchResolve(p)) =>
              /\ Len(issued') = 1
              /\ CarriesPage(issued'[1], [page |-> article.pagination.current_page,
                                          per_page |-> article.pagination.per_page])
              /\ CarriesFilters(issued'[1], filterParams)
              /\ CarriesKeyword(issued'[1], serarchKeyword)
        /\ (\E p \in patches, stay \in BOOLEAN : PatchReject(p, stay)) =>
              issued' = <<>> /\ UNCHANGED <<article, fetchSeq, pending>>
        /\ onOk => issued' = <<>> /\ UNCHANGED <<fetchSeq, pending>>
      ]_vars

\* C6: a change of the filters issues a fetch with the new filters, the current
\* keyword and no page or per_page; a pagination event issues one fetch with
\* exactly that page and per_page, the current filters and keyword, and leaves
\* the filters alone.
C6_FilterAndPaginationFetch ==
    [][ /\ filterParams' # filterParams =>
              /\ Len(issued') >= 1
              /\ CarriesFilters(Last(issued'), filterParams')
              /\ \A i \in DOMAIN issued' :
                    /\ CarriesKeyword(issued'[i], serarchKeyword')
                    /\ CarriesPage(issued'[i], NoParams)
        /\ \A page \in Pages, pageSize \in PageSizes :
              onPagination(page, pageSize) =>
                 /\ Len(issued') = 1
                 /\ CarriesPage(issued'[1], [page |-> page, per_page |-> pageSize])
                 /\ CarriesFilters(issued'[1], filterParams)
                 /\ CarriesKeyword(issued'[1], serarchKeyword)
                 /\ filterParams' = filterParams
      ]_vars

\* C7: resetParamsAndRefresh leaves the keyword empty and the filters at
\* DEFAULT_FILTER_PARAMS and issues at least one fetch, the last of which
\* carries the default sort and nothing else.
C7_ResetFetchesDefaults ==
    [][ resetParamsAndRefresh =>
          /\ serarchKeyword' = ""
          /\ filterParams' = DEFAULT_FILTER_PARAMS
          /\ Len(issued') >= 1
          /\ LET r == Last(issued')
             IN  /\ DOMAIN r \subseteq {"sort", "keyword"}
                 /\ "sort" \in DOMAIN r /\ r.sort = DEFAULT_FILTER_PARAMS.sort
                 /\ "keyword" \in DOMAIN r => r.keyword = Undefined
      ]_vars

C7_Witness ==
    /\ Len(issued) >= 2
    /\ filterParams = DEFAULT_FILTER_PARAMS
    /\ serarchKeyword = ""
    /\ DOMAIN issued[1] # DOMAIN Last(issued)

\* C8: data and pagination are always those of one response, or both initial;
\* a response replaces both with its own, a rejected call changes neither.
C8_DataWithPagination ==
    /\ [](/\ article.data.rid = article.pagination.rid
          /\ article.data.rid = 0 => article = [data |-> NoData, pagination |-> NoPagination])
    /\ [][ /\ article' # article =>
                 /\ article'.data.rid \in pending
                 /\ article'.data.rid \notin pending'
                 /\ article'.pagination.rid = article'.data.rid
           /\ (\E id \in pending : GetArticlesReject(id)) => article' = article
         ]_vars

C8_Witness == failed /\ article.data.rid > 1 /\ article.pagination.current_page = "2"

\* C9: when every fetch has resolved, the data displayed is that of the fetch
\* issued last.
C9_LatestFetchDisplayed ==
    (fetchSeq > 0 /\ pending = {} /\ ~failed) => article.data.rid = fetchSeq

\* C10: the list loading flag is set exactly while a getArticles call is in
\* flight, and the responses for categories and tags do not touch it.
C10_LoadingTracksFetches ==
    /\ [](loading <=> pending # {})
    /\ [][(CategoriesResolve \/ TagsResolve) => loading' = loading]_vars

====
